---- MODULE Spec2Model ----
(***************************************************************************)
(* Question-decompose agent: the agent-loop path (ReActAgent.process,      *)
(* wrapped by ReActQuestionDecomposeAgent.process) and the single-shot     *)
(* path (SimpleQuestionDecomposeAgent.process), with the two tools         *)
(* (ComplexityCheckTool._run, ProblemDecomposeTool._run) they call.        *)
(*                                                                         *)
(* Text is modelled at the level of lexical units: a text is a sequence of *)
(* tokens.  A token is a record [k, v, raw, items]: k = "" for a           *)
(* structural or stand-alone unit ("{", "}", prose, whitespace, the marker *)
(* "Final Answer:", a bare JSON literal) and k = <key> for one member      *)
(* `"key": literal` of a JSON object (the separating comma is part of the  *)
(* unit); v is the literal as written; raw holds the text a string literal *)
(* quotes (raw_response) and items the elements of a list literal.         *)
(* Python values are records [type, val, items, text]: type is the Python  *)
(* type name, val the repr of a scalar, items the elements of a list, text *)
(* the content of a str that holds a whole text.                           *)
(***************************************************************************)
EXTENDS Naturals, Integers, Sequences, FiniteSets, TLC

(* ------------------------------ bounds -------------------------------- *)

\* longest final text of the agent, in tokens
MaxOutLen == 4
\* longest response body of a tool's model call, in tokens
MaxBodyLen == 3
\* most tool requests the model makes in one agent run
MaxToolCalls == 2

(* --------------------------- Python values ---------------------------- *)

Py(type, val) == [type |-> type, val |-> val, items |-> <<>>, text |-> <<>>]
PyTrue == Py("bool", "True")
PyFalse == Py("bool", "False")
PyNone == Py("NoneType", "None")
PyStr(s) == Py("str", s)
PyInt(n) == Py("int", n)
PyList(xs) == [type |-> "list", val |-> "", items |-> xs, text |-> <<>>]
PyText(t) == [type |-> "str", val |-> "", items |-> <<>>, text |-> t]
\* a dict held as a value: items are its items
PyDict(d) == [type |-> "dict", val |-> "", items |-> d, text |-> <<>>]

\* isinstance(x, str)
IsStr(x) == x.type = "str"

\* bool(x): the truth value Python's `if x:` takes
Truthy(x) ==
    CASE x.type = "bool" -> x.val = "True"
      [] x.type = "NoneType" -> FALSE
      [] x.type = "int" -> x.val # "0"
      [] x.type = "str" -> x.val # "" \/ x.text # <<>>
      [] x.type = "list" -> x.items # <<>>
      [] OTHER -> TRUE

\* the spellings of "true" and of "false" in every casing
CasedStrings ==
    {"true", "truE", "trUe", "trUE", "tRue", "tRuE", "tRUe", "tRUE",
     "True", "TruE", "TrUe", "TrUE", "TRue", "TRuE", "TRUe", "TRUE",
     "false", "falsE", "falSe", "falSE", "faLse", "faLsE", "faLSe",
     "faLSE", "fAlse", "fAlsE", "fAlSe", "fAlSE", "fALse", "fALsE",
     "fALSe", "fALSE", "False", "FalsE", "FalSe", "FalSE", "FaLse",
     "FaLsE", "FaLSe", "FaLSE", "FAlse", "FAlsE", "FAlSe", "FAlSE",
     "FALse", "FALsE", "FALSe", "FALSE"}

\* the characters of a string s of CasedStrings
Spelling(s) ==
    CASE s = "true" -> <<"t", "r", "u", "e">>
      [] s = "truE" -> <<"t", "r", "u", "E">>
      [] s = "trUe" -> <<"t", "r", "U", "e">>
      [] s = "trUE" -> <<"t", "r", "U", "E">>
      [] s = "tRue" -> <<"t", "R", "u", "e">>
      [] s = "tRuE" -> <<"t", "R", "u", "E">>
      [] s = "tRUe" -> <<"t", "R", "U", "e">>
      [] s = "tRUE" -> <<"t", "R", "U", "E">>
      [] s = "True" -> <<"T", "r", "u", "e">>
      [] s = "TruE" -> <<"T", "r", "u", "E">>
      [] s = "TrUe" -> <<"T", "r", "U", "e">>
      [] s = "TrUE" -> <<"T", "r", "U", "E">>
      [] s = "TRue" -> <<"T", "R", "u", "e">>
      [] s = "TRuE" -> <<"T", "R", "u", "E">>
      [] s = "TRUe" -> <<"T", "R", "U", "e">>
      [] s = "TRUE" -> <<"T", "R", "U", "E">>
      [] s = "false" -> <<"f", "a", "l", "s", "e">>
      [] s = "falsE" -> <<"f", "a", "l", "s", "E">>
      [] s = "falSe" -> <<"f", "a", "l", "S", "e">>
      [] s = "falSE" -> <<"f", "a", "l", "S", "E">>
      [] s = "faLse" -> <<"f", "a", "L", "s", "e">>
      [] s = "faLsE" -> <<"f", "a", "L", "s", "E">>
      [] s = "faLSe" -> <<"f", "a", "L", "S", "e">>
      [] s = "faLSE" -> <<"f", "a", "L", "S", "E">>
      [] s = "fAlse" -> <<"f", "A", "l", "s", "e">>
      [] s = "fAlsE" -> <<"f", "A", "l", "s", "E">>
      [] s = "fAlSe" -> <<"f", "A", "l", "S", "e">>
      [] s = "fAlSE" -> <<"f", "A", "l", "S", "E">>
      [] s = "fALse" -> <<"f", "A", "L", "s", "e">>
      [] s = "fALsE" -> <<"f", "A", "L", "s", "E">>
      [] s = "fALSe" -> <<"f", "A", "L", "S", "e">>
      [] s = "fALSE" -> <<"f", "A", "L", "S", "E">>
      [] s = "False" -> <<"F", "a", "l", "s", "e">>
      [] s = "FalsE" -> <<"F", "a", "l", "s", "E">>
      [] s = "FalSe" -> <<"F", "a", "l", "S", "e">>
      [] s = "FalSE" -> <<"F", "a", "l", "S", "E">>
      [] s = "FaLse" -> <<"F", "a", "L", "s", "e">>
      [] s = "FaLsE" -> <<"F", "a", "L", "s", "E">>
      [] s = "FaLSe" -> <<"F", "a", "L", "S", "e">>
      [] s = "FaLSE" -> <<"F", "a", "L", "S", "E">>
      [] s = "FAlse" -> <<"F", "A", "l", "s", "e">>
      [] s = "FAlsE" -> <<"F", "A", "l", "s", "E">>
      [] s = "FAlSe" -> <<"F", "A", "l", "S", "e">>
      [] s = "FAlSE" -> <<"F", "A", "l", "S", "E">>
      [] s = "FALse" -> <<"F", "A", "L", "s", "e">>
      [] s = "FALsE" -> <<"F", "A", "L", "s", "E">>
      [] s = "FALSe" -> <<"F", "A", "L", "S", "e">>
      [] s = "FALSE" -> <<"F", "A", "L", "S", "E">>

\* str.lower() on one character
LowerChar(c) ==
    CASE c = "T" -> "t" [] c = "R" -> "r" [] c = "U" -> "u" [] c = "E" -> "e"
      [] c = "F" -> "f" [] c = "A" -> "a" [] c = "L" -> "l" [] c = "S" -> "s"
      [] OTHER -> c

\* str.lower(): character by character on the strings of CasedStrings; the
\* other strings of the model hold no upper-case letter
Lower(s) ==
    IF s \in CasedStrings
    THEN CHOOSE t \in CasedStrings :
            Spelling(t) = [i \in 1..Len(Spelling(s)) |-> LowerChar(Spelling(s)[i])]
    ELSE s

(* ------------------------------ tokens -------------------------------- *)

Tok(k, v) == [k |-> k, v |-> v, raw |-> <<>>, items |-> <<>>]
\* a string literal that quotes the text t
TextTok(k, t) == [k |-> k, v |-> "<text>", raw |-> t, items |-> <<>>]
\* a list literal with the elements xs
ListTok(k, xs) == [k |-> k, v |-> "<list>", raw |-> <<>>, items |-> xs]
LBRACE == Tok("", "{")
RBRACE == Tok("", "}")
PROSE == Tok("", "prose")
WS == Tok("", " ")
\* final_answer_marker = "Final Answer:"
final_answer_marker == Tok("", "Final Answer:")
\* len(final_answer_marker), in tokens
MarkerLen == 1

\* sub-problem type tags: "原始问题", "简单问题", "信息查询", "比较分析"
TYPE_ORIGINAL == "original question"
TYPE_SIMPLE == "simple question"
TYPE_LOOKUP == "information lookup"
TYPE_COMPARE == "comparative analysis"

\* "解析失败，默认为简单问题" (tools.py), "解析失败" (agent.py)
REASON_TOOL_PARSE_FAILED == "parse failed, default to simple question"
REASON_PARSE_FAILED == "parse failed"

SubProblem(id, content, type, deps) ==
    [id |-> id, content |-> content, type |-> type, dependencies |-> deps]

\* a decomposition the model writes: two sub-problems, the second after the first
SuppliedSubProblems ==
    << SubProblem(1, "part one", TYPE_LOOKUP, <<>>),
       SubProblem(2, "part two", TYPE_COMPARE, <<1>>) >>

\* the scalar JSON literals, as written
JsonLiterals ==
    {"true", "false", "null", "1", "0", "\"True\"", "\"false\"", "\"ok\"", "\"\"",
     "\"parse failed, default to simple question\""}

\* json.loads on one scalar literal
ParseLiteral(v) ==
    CASE v = "true" -> PyTrue
      [] v = "false" -> PyFalse
      [] v = "null" -> PyNone
      [] v = "1" -> PyInt("1")
      [] v = "0" -> PyInt("0")
      [] v = "\"True\"" -> PyStr("True")
      [] v = "\"false\"" -> PyStr("false")
      [] v = "\"ok\"" -> PyStr("ok")
      [] v = "\"\"" -> PyStr("")
      [] v = "\"parse failed, default to simple question\"" ->
            PyStr(REASON_TOOL_PARSE_FAILED)

\* json.dumps on one scalar value
DumpLiteral(x) ==
    CASE x.type = "bool" -> IF x.val = "True" THEN "true" ELSE "false"
      [] x.type = "NoneType" -> "null"
      [] x.type = "int" -> x.val
      [] x.type = "str" ->
            CASE x.val = "True" -> "\"True\""
              [] x.val = "false" -> "\"false\""
              [] x.val = "ok" -> "\"ok\""
              [] x.val = "" -> "\"\""
              [] x.val = REASON_TOOL_PARSE_FAILED ->
                    "\"parse failed, default to simple question\""

(* ------------------------- json.loads / json.dumps -------------------- *)

\* a Python dict: its items in insertion order, keys unique
DictHas(d, key) == \E i \in 1..Len(d) : d[i].k = key
\* d.get(key, default)
DictGet(d, key, default) ==
    IF DictHas(d, key)
    THEN d[CHOOSE i \in 1..Len(d) : d[i].k = key].val
    ELSE default
\* d[key] = val: an existing key keeps its place, a new one goes last
DictSet(d, key, val) ==
    IF DictHas(d, key)
    THEN [i \in 1..Len(d) |-> IF d[i].k = key THEN [k |-> key, val |-> val] ELSE d[i]]
    ELSE Append(d, [k |-> key, val |-> val])

\* the value of one member token
MemberValue(tok) ==
    CASE tok.v = "<text>" -> PyText(tok.raw)
      [] tok.v = "<list>" -> PyList(tok.items)
      [] OTHER -> ParseLiteral(tok.v)
\* the literal of one value, under the key k ("" for a bare value)
ValueToken(k, x) ==
    CASE x.type = "str" /\ x.text # <<>> -> TextTok(k, x.text)
      [] x.type = "list" -> ListTok(k, x.items)
      [] OTHER -> Tok(k, DumpLiteral(x))
\* the member token of one dict item
MemberToken(m) == ValueToken(m.k, m.val)

RECURSIVE BuildDict(_, _)
\* the dict of a sequence of member tokens: a repeated key keeps its last value
BuildDict(toks, d) ==
    IF toks = <<>> THEN d
    ELSE BuildDict(Tail(toks), DictSet(d, Head(toks).k, MemberValue(Head(toks))))

NotWs(tok) == tok # WS
IsLiteral(tok) == tok.v \in JsonLiterals \cup {"<text>", "<list>"}
IsMember(tok) == tok.k # "" /\ IsLiteral(tok)
IsBareLiteral(tok) == tok.k = "" /\ IsLiteral(tok)

\* what json.loads gives: ok = FALSE is json.JSONDecodeError
Decoded(ok, isdict, d, x) == [ok |-> ok, isdict |-> isdict, dict |-> d, scalar |-> x]
JSONDecodeError == Decoded(FALSE, FALSE, <<>>, PyNone)

\* json.loads(text)
Loads(text) ==
    LET t == SelectSeq(text, NotWs)
        n == Len(t)
    IN  IF n = 1 /\ IsBareLiteral(t[1])
        THEN Decoded(TRUE, FALSE, <<>>, MemberValue(t[1]))
        ELSE IF n >= 2 /\ t[1] = LBRACE /\ t[n] = RBRACE
                /\ \A i \in 2..(n - 1) : IsMember(t[i])
        THEN Decoded(TRUE, TRUE, BuildDict(SubSeq(t, 2, n - 1), <<>>), PyNone)
        ELSE JSONDecodeError

RECURSIVE Indented(_)
\* indent=2: every member on a line of its own
Indented(d) ==
    IF d = <<>> THEN <<>>
    ELSE <<WS, MemberToken(Head(d))>> \o Indented(Tail(d))

\* json.dumps(d, ensure_ascii=False, indent=2) of a dict
DumpsDict(d) ==
    IF d = <<>> THEN <<LBRACE, RBRACE>>
    ELSE <<LBRACE>> \o Indented(d) \o <<WS, RBRACE>>

\* json.dumps(result, ensure_ascii=False, indent=2) of what json.loads gave
Dumps(dec) ==
    IF dec.isdict THEN DumpsDict(dec.dict)
    ELSE <<ValueToken("", dec.scalar)>>

(* ------------------------------ str methods --------------------------- *)

\* marker in s
Contains(s, tok) == \E i \in 1..Len(s) : s[i] = tok

RECURSIVE FindFrom(_, _, _)
FindFrom(s, tok, i) ==
    IF i > Len(s) THEN -1
    ELSE IF s[i] = tok THEN i - 1
    ELSE FindFrom(s, tok, i + 1)
\* s.find(tok): the 0-based index of the first occurrence, or -1
Find(s, tok) == FindFrom(s, tok, 1)

RECURSIVE RFindFrom(_, _, _)
RFindFrom(s, tok, i) ==
    IF i < 1 THEN -1
    ELSE IF s[i] = tok THEN i - 1
    ELSE RFindFrom(s, tok, i - 1)
\* s.rfind(tok): the 0-based index of the last occurrence, or -1
RFind(s, tok) == RFindFrom(s, tok, Len(s))

\* s[a:b] with 0 <= a <= b <= len(s)
Slice(s, a, b) == SubSeq(s, a + 1, b)
\* s[a:] with 0 <= a
SliceFrom(s, a) == SubSeq(s, a + 1, Len(s))

RECURSIVE LStrip(_)
LStrip(s) == IF s # <<>> /\ Head(s) = WS THEN LStrip(Tail(s)) ELSE s
RECURSIVE RStrip(_)
RStrip(s) ==
    IF s # <<>> /\ s[Len(s)] = WS THEN RStrip(SubSeq(s, 1, Len(s) - 1)) ELSE s
\* s.strip()
Strip(s) == RStrip(LStrip(s))

(* -------------------------------- tools ------------------------------- *)

Item(k, x) == [k |-> k, val |-> x]

\* a slip: the except branch hands the body back as it came
ComplexityCheckRunUnguarded(content) ==
    LET dec == Loads(content)
    IN  IF dec.ok THEN Dumps(dec) ELSE content

\* ComplexityCheckTool._run after llm.invoke returned: content is response.content
ComplexityCheckRun(content) ==
    LET dec == Loads(content)
    IN  IF dec.ok
        THEN Dumps(dec)
        ELSE DumpsDict(<< Item("is_complex", PyFalse),
                          Item("reason", PyStr(REASON_TOOL_PARSE_FAILED)),
                          Item("indicators", PyList(<<>>)),
                          Item("raw_response", PyText(content)) >>)

\* the one sub-problem ProblemDecomposeTool._run falls back to
\* note: "解析失败，返回原始问题"
DecomposeFallbackItem(query) ==
    [id |-> 1, content |-> query, type |-> TYPE_ORIGINAL, dependencies |-> <<>>,
     note |-> "parse failed, the original question is returned"]

\* a slip: the except branch returns no sub-problem at all
ProblemDecomposeRunEmpty(query, content) ==
    LET dec == Loads(content)
    IN  IF dec.ok
        THEN Dumps(dec)
        ELSE DumpsDict(<< Item("sub_problems", PyList(<<>>)),
                          Item("raw_response", PyText(content)) >>)

\* ProblemDecomposeTool._run after llm.invoke returned
ProblemDecomposeRun(query, content) ==
    LET dec == Loads(content)
    IN  IF dec.ok
        THEN Dumps(dec)
        ELSE DumpsDict(<< Item("sub_problems", PyList(<<DecomposeFallbackItem(query)>>)),
                          Item("raw_response", PyText(content)) >>)

\* BaseTool.run of the tool named name
ToolRun(name, query, content) ==
    IF name = "complexity_check" THEN ComplexityCheckRun(content)
    ELSE ProblemDecomposeRun(query, content)

(* ------------------------ ReActAgent (agent loop) --------------------- *)

\* a slip: the str is compared as written, without lower()
FormatIsComplexAsWritten(result) ==
    LET is_complex == DictGet(result, "is_complex", PyFalse)
    IN  IF IsStr(is_complex)
        THEN (IF is_complex.val = "true" THEN PyTrue ELSE PyFalse)
        ELSE is_complex

\* is_complex = result.get("is_complex", False), coerced when it is a str
FormatIsComplex(result) ==
    LET is_complex == DictGet(result, "is_complex", PyFalse)
    IN  IF IsStr(is_complex)
        THEN (IF Lower(is_complex.val) = "true" THEN PyTrue ELSE PyFalse)
        ELSE is_complex

\* the sub-problem that stands for the whole question
WholeQuestion(query) == PyList(<<SubProblem(1, query, TYPE_ORIGINAL, <<>>)>>)

\* a slip: the `elif is_complex` branch is missing
FormatSubProblemsNoElif(query, result) ==
    IF DictHas(result, "sub_problems")
    THEN DictGet(result, "sub_problems", PyList(<<>>))
    ELSE PyList(<<>>)

\* sub_problems of _format_final_result
FormatSubProblems(query, result) ==
    IF DictHas(result, "sub_problems")
    THEN DictGet(result, "sub_problems", PyList(<<>>))
    ELSE IF Truthy(FormatIsComplex(result))
    THEN WholeQuestion(query)
    ELSE PyList(<<>>)

\* a slip: reason and indicators read where the system prompt puts them,
\* under complexity_analysis
format_final_result_nested(query, result) ==
    LET analysis == DictGet(result, "complexity_analysis", PyDict(<<>>)).items
    IN  [original_query |-> query,
         is_complex |-> FormatIsComplex(result),
         sub_problems |-> FormatSubProblems(query, result),
         complexity_analysis |->
            [reason |-> DictGet(analysis, "reason", PyStr("")),
             indicators |-> DictGet(analysis, "indicators", PyList(<<>>))]]

\* ReActAgent._format_final_result(query, result)
format_final_result(query, result) ==
    [original_query |-> query,
     is_complex |-> FormatIsComplex(result),
     sub_problems |-> FormatSubProblems(query, result),
     complexity_analysis |->
        [reason |-> DictGet(result, "reason", PyStr("")),
         indicators |-> DictGet(result, "indicators", PyList(<<>>))]]

\* a slip: "unknown" reported as "not complex"
RawOutputResultFalse(query, output) ==
    [original_query |-> query,
     is_complex |-> PyFalse,
     sub_problems |-> PyList(<<>>),
     raw_output |-> output]

\* the result returned when the final text yields no object
RawOutputResult(query, output) ==
    [original_query |-> query,
     is_complex |-> PyNone,
     sub_problems |-> PyList(<<>>),
     raw_output |-> output]

\* the result returned from `except Exception as e`
ErrorResult(query, message) ==
    [original_query |-> query,
     is_complex |-> PyNone,
     sub_problems |-> PyList(<<>>),
     error |-> message]

\* a slip: the last occurrence of the marker instead of the first
FinalAnswerStartLast(output) == RFind(output, final_answer_marker) + MarkerLen

\* final_answer_start
FinalAnswerStart(output) == Find(output, final_answer_marker) + MarkerLen
\* the text the braces are looked for in
SearchText(output) ==
    IF Contains(output, final_answer_marker)
    THEN Strip(SliceFrom(output, FinalAnswerStart(output)))
    ELSE output
\* json_start, json_end
JsonStart(text) == Find(text, LBRACE)
JsonEnd(text) == RFind(text, RBRACE) + 1
HasSpan(text) == JsonStart(text) >= 0 /\ JsonEnd(text) > JsonStart(text)
\* json_str
JsonStr(text) == Slice(text, JsonStart(text), JsonEnd(text))

\* ReActAgent.process from the agent's output on: the locals json_str and
\* parsed_result (<<>> when never assigned) and the value returned
ProcessOutput(query, output) ==
    LET text == SearchText(output)
    IN  IF HasSpan(text)
        THEN LET dec == Loads(JsonStr(text))
             IN  IF dec.ok
                 THEN [json_str |-> <<JsonStr(text)>>,
                       parsed_result |-> <<dec.dict>>,
                       result |-> format_final_result(query, dec.dict)]
                 ELSE [json_str |-> <<JsonStr(text)>>,
                       parsed_result |-> <<>>,
                       result |-> RawOutputResult(query, output)]
        ELSE [json_str |-> <<>>,
              parsed_result |-> <<>>,
              result |-> RawOutputResult(query, output)]

(* ------------------- SimpleQuestionDecomposeAgent --------------------- *)

\* complexity_result: json.loads(complexity_result_str), or the default
ComplexityResult(complexity_result_str) ==
    LET dec == Loads(complexity_result_str)
    IN  IF dec.ok THEN dec
        ELSE Decoded(TRUE, TRUE,
                     << Item("is_complex", PyFalse),
                        Item("reason", PyStr(REASON_PARSE_FAILED)),
                        Item("indicators", PyList(<<>>)) >>, PyNone)

\* sub_problems when decompose_result_str is no JSON
UndecomposedSubProblems(query) == PyList(<<SubProblem(1, query, TYPE_ORIGINAL, <<>>)>>)

\* sub_problems of a simple question
SimpleSubProblems(query) == PyList(<<SubProblem(1, query, TYPE_SIMPLE, <<>>)>>)

\* the value SimpleQuestionDecomposeAgent.process returns
SimpleResult(query, complexity_result, sub_problems) ==
    [original_query |-> query,
     is_complex |-> DictGet(complexity_result, "is_complex", PyFalse),
     sub_problems |-> sub_problems,
     complexity_analysis |->
        [reason |-> DictGet(complexity_result, "reason", PyStr("")),
         indicators |-> DictGet(complexity_result, "indicators", PyList(<<>>))]]

\* sub_problems after the decomposition tool returned decompose_result_str;
\* ok = FALSE: decompose_result is no dict and .get raises AttributeError
DecomposedSubProblems(query, decompose_result_str) ==
    LET dec == Loads(decompose_result_str)
    IN  IF ~dec.ok THEN [ok |-> TRUE, sub_problems |-> UndecomposedSubProblems(query)]
        ELSE IF ~dec.isdict THEN [ok |-> FALSE, sub_problems |-> PyList(<<>>)]
        ELSE [ok |-> TRUE,
              sub_problems |-> DictGet(dec.dict, "sub_problems", PyList(<<>>))]

(* ------------------------------ environment --------------------------- *)

\* the questions asked
Queries == {"what day is it", "find a hotel and a flight"}
\* str(e) of the failures a model call ends with
Errors == {"Connection error.", "Request timed out."}
\* str(e) of the AttributeError of `.get` on a value that is no dict
ATTRIBUTE_ERROR == "object has no attribute 'get'"

\* all texts of at most n tokens over the alphabet A
Texts(A, n) == UNION {[1..m -> A] : m \in 0..n}

\* what the model writes as the agent's final text
OutputAlphabet ==
    {final_answer_marker, LBRACE, RBRACE, PROSE, WS,
     Tok("is_complex", "true"), Tok("is_complex", "false"),
     Tok("is_complex", "\"True\""), Tok("is_complex", "1"),
     ListTok("sub_problems", <<>>), ListTok("sub_problems", SuppliedSubProblems)}
\* what the model answers to the classification prompt
ComplexityAlphabet ==
    {LBRACE, RBRACE, PROSE, Tok("", "1"),
     Tok("is_complex", "true"), Tok("is_complex", "false"),
     Tok("is_complex", "\"false\""), Tok("is_complex", "1"),
     Tok("reason", "\"ok\"")}
\* what the model answers to the decomposition prompt
DecomposeAlphabet ==
    {LBRACE, RBRACE, PROSE, Tok("", "1"),
     ListTok("sub_problems", <<>>), ListTok("sub_problems", SuppliedSubProblems)}

Outputs == Texts(OutputAlphabet, MaxOutLen)
ComplexityBodies == Texts(ComplexityAlphabet, MaxBodyLen)
DecomposeBodies == Texts(DecomposeAlphabet, MaxBodyLen)
ToolNames == {"complexity_check", "problem_decompose"}
Bodies(name) == IF name = "complexity_check" THEN ComplexityBodies ELSE DecomposeBodies

(* -------------------------------- state ------------------------------- *)

VARIABLES
    pc,                 \* where the one process(query) call stands
    path,               \* "simple" or "react": the agent create_agent made
    query,              \* the argument of process
    complexity_result,  \* single-shot path: the dict of the verdict
    llm_calls,          \* single-shot path: the model calls made, in order
    tool_calls,         \* agent loop: tool requests so far
    tool,               \* agent loop: the tool requested, and its argument
    tool_query,
    content,            \* response.content inside the tool last run
    observation,        \* what that tool returned (decompose_result_str)
    output,             \* agent-loop path: the agent's final text
    json_str,           \* agent-loop path: <<json_str>>, <<>> when unassigned
    parsed_result,      \* agent-loop path: <<parsed_result>>, <<>> likewise
    outcome,            \* "none", "returned" or "raised"
    result,             \* the value returned
    raised,             \* str(e) of the exception process raised
    failure             \* str(e) of the model call that failed

vars == <<pc, path, query, complexity_result, llm_calls, tool_calls, tool,
          tool_query, content, observation, output, json_str, parsed_result,
          outcome, result, raised, failure>>

NoResult == [original_query |-> ""]

Init ==
    /\ pc = "idle"
    /\ path \in {"simple", "react"}
    /\ query = ""
    /\ complexity_result = <<>>
    /\ llm_calls = <<>>
    /\ tool_calls = 0
    /\ tool = ""
    /\ tool_query = ""
    /\ content = <<>>
    /\ observation = <<>>
    /\ output = <<>>
    /\ json_str = <<>>
    /\ parsed_result = <<>>
    /\ outcome = "none"
    /\ result = NoResult
    /\ raised = ""
    /\ failure = ""

LoopVars == <<tool_calls, tool, tool_query, content, observation>>
ReActVars == <<output, json_str, parsed_result>>
SimpleVars == <<complexity_result, llm_calls>>

\* process returns r
Return(r) ==
    /\ pc' = "done"
    /\ outcome' = "returned"
    /\ result' = r
    /\ raised' = ""

\* process raises an exception whose str is message
Raise(message) ==
    /\ pc' = "done"
    /\ outcome' = "raised"
    /\ result' = NoResult
    /\ raised' = message

(* --------------- SimpleQuestionDecomposeAgent.process ----------------- *)

\* process(q) is called: the classification tool sends its prompt
SimpleProcess ==
    /\ pc = "idle" /\ path = "simple"
    /\ \E q \in Queries : query' = q
    /\ llm_calls' = <<"classification">>
    /\ pc' = "complexity_call"
    /\ UNCHANGED <<path, complexity_result, LoopVars, ReActVars, outcome, result,
                   raised, failure>>

\* llm.invoke of the classification tool returns body; process runs on to the
\* decomposition tool's model call, or to its end
ComplexityRespond ==
    /\ pc = "complexity_call"
    /\ \E body \in ComplexityBodies :
       LET cr == ComplexityResult(ComplexityCheckRun(body))
       IN  IF ~cr.isdict
           THEN /\ Raise(ATTRIBUTE_ERROR)
                /\ UNCHANGED SimpleVars
           ELSE IF Truthy(DictGet(cr.dict, "is_complex", PyFalse))
           THEN /\ complexity_result' = cr.dict
                /\ llm_calls' = Append(llm_calls, "decomposition")
                /\ pc' = "decompose_call"
                /\ UNCHANGED <<outcome, result, raised>>
           ELSE /\ complexity_result' = cr.dict
                /\ Return(SimpleResult(query, cr.dict, SimpleSubProblems(query)))
                /\ UNCHANGED llm_calls
    /\ UNCHANGED <<path, query, LoopVars, ReActVars, failure>>

\* llm.invoke of the classification tool raises: nothing catches it
ComplexityFail ==
    /\ pc = "complexity_call"
    /\ \E message \in Errors :
        /\ failure' = message
        /\ Raise(message)
    /\ UNCHANGED <<path, query, SimpleVars, LoopVars, ReActVars>>

\* llm.invoke of the decomposition tool returns body
DecomposeRespond ==
    /\ pc = "decompose_call"
    /\ \E body \in DecomposeBodies :
       LET decompose_result_str == ProblemDecomposeRun(query, body)
           d == DecomposedSubProblems(query, decompose_result_str)
       IN  /\ content' = body
           /\ observation' = decompose_result_str
           /\ IF d.ok
              THEN Return(SimpleResult(query, complexity_result, d.sub_problems))
              ELSE Raise(ATTRIBUTE_ERROR)
    /\ UNCHANGED <<path, query, SimpleVars, tool_calls, tool, tool_query,
                   ReActVars, failure>>

\* llm.invoke of the decomposition tool raises: nothing catches it
DecomposeFail ==
    /\ pc = "decompose_call"
    /\ \E message \in Errors :
        /\ failure' = message
        /\ Raise(message)
    /\ UNCHANGED <<path, query, SimpleVars, LoopVars, ReActVars>>

(* --- ReActQuestionDecomposeAgent.process -> ReActAgent.process -------- *)

\* process(q) is called: agent.invoke starts with the user message
ReActProcess ==
    /\ pc = "idle" /\ path = "react"
    /\ \E q \in Queries : query' = q
    /\ pc' = "thinking"
    /\ UNCHANGED <<path, SimpleVars, LoopVars, ReActVars, outcome, result, raised,
                   failure>>

\* the model's turn asks for the tool t with the argument q
ModelRequestsTool ==
    /\ pc = "thinking"
    /\ tool_calls < MaxToolCalls
    /\ tool_calls' = tool_calls + 1
    /\ \E t \in ToolNames, q \in Queries :
        /\ tool' = t
        /\ tool_query' = q
    /\ pc' = "acting"
    /\ UNCHANGED <<path, query, SimpleVars, content, observation, ReActVars,
                   outcome, result, raised, failure>>

\* llm.invoke inside the requested tool returns body: the tool returns
ToolRespond ==
    /\ pc = "acting"
    /\ \E body \in Bodies(tool) :
        /\ content' = body
        /\ observation' = ToolRun(tool, tool_query, body)
    /\ pc' = "observing"
    /\ UNCHANGED <<path, query, SimpleVars, tool_calls, tool, tool_query,
                   ReActVars, outcome, result, raised, failure>>

\* the tool's return value joins the messages and the model is asked again
Observe ==
    /\ pc = "observing"
    /\ tool' = ""
    /\ tool_query' = ""
    /\ content' = <<>>
    /\ observation' = <<>>
    /\ pc' = "thinking"
    /\ UNCHANGED <<path, query, SimpleVars, tool_calls, ReActVars, outcome,
                   result, raised, failure>>

\* agent.invoke raises (the model's turn or the tool's model call failed):
\* `except Exception as e` of ReActAgent.process returns the error result
InvokeFail ==
    /\ pc \in {"thinking", "acting"}
    /\ \E message \in Errors :
        /\ failure' = message
        /\ Return(ErrorResult(query, message))
    /\ tool_calls' = 0
    /\ tool' = ""
    /\ tool_query' = ""
    /\ UNCHANGED <<path, query, SimpleVars, content, observation, ReActVars>>

\* the model's turn asks for no tool: agent.invoke returns and the content of
\* the last message is the output; process extracts and formats the result
ModelFinal ==
    /\ pc = "thinking"
    /\ \E out \in Outputs :
       LET p == ProcessOutput(query, out)
       IN  /\ output' = out
           /\ json_str' = p.json_str
           /\ parsed_result' = p.parsed_result
           /\ Return(p.result)
    /\ tool_calls' = 0
    /\ UNCHANGED <<path, query, SimpleVars, tool, tool_query, content,
                   observation, failure>>

Next ==
    \/ SimpleProcess
    \/ ComplexityRespond
    \/ ComplexityFail
    \/ DecomposeRespond
    \/ DecomposeFail
    \/ ReActProcess
    \/ ModelRequestsTool
    \/ ToolRespond
    \/ Observe
    \/ InvokeFail
    \/ ModelFinal

Spec == Init /\ [][Next]_vars

(* ------------- ReActAgent._format_final_result on its own ------------- *)

\* the is_complex values of a parsed final object
IsComplexValues ==
    {PyTrue, PyFalse, PyNone, PyInt("1")}
        \cup {PyStr(s) : s \in CasedStrings \cup {"yes", "", "true "}}
\* each key of the parsed final object: absent, or present with a value
IsComplexItems == {<<>>} \cup {<<Item("is_complex", x)>> : x \in IsComplexValues}
SubProblemsItems ==
    {<<>>, <<Item("sub_problems", PyList(<<>>))>>,
     <<Item("sub_problems", PyList(SuppliedSubProblems))>>}
ReasonItems == {<<>>, <<Item("reason", PyStr("ok"))>>}
SuppliedIndicators == PyList(<<PyStr("multi-intent")>>)
IndicatorsItems == {<<>>, <<Item("indicators", SuppliedIndicators)>>}
\* complexity_analysis as the system prompt asks for it
SuppliedAnalysis ==
    PyDict(<<Item("reason", PyStr("ok")), Item("indicators", SuppliedIndicators)>>)
AnalysisItems == {<<>>, <<Item("complexity_analysis", SuppliedAnalysis)>>}

\* _format_final_result is about to be called with a query and a parsed object
InitFormat ==
    /\ pc = "formatting"
    /\ path = "react"
    /\ query \in Queries
    /\ \E a \in IsComplexItems, b \in SubProblemsItems, c \in ReasonItems,
          d \in IndicatorsItems, e \in AnalysisItems :
            parsed_result = <<a \o b \o c \o d \o e>>
    /\ complexity_result = <<>>
    /\ llm_calls = <<>>
    /\ tool_calls = 0
    /\ tool = ""
    /\ tool_query = ""
    /\ content = <<>>
    /\ observation = <<>>
    /\ output = <<>>
    /\ json_str = <<>>
    /\ outcome = "none"
    /\ result = NoResult
    /\ raised = ""
    /\ failure = ""

\* return self._format_final_result(query, parsed_result)
FormatFinalResult ==
    /\ pc = "formatting"
    /\ Return(format_final_result(query, parsed_result[1]))
    /\ UNCHANGED <<path, query, SimpleVars, LoopVars, ReActVars, failure>>

NextFormat == FormatFinalResult

SpecFormat == InitFormat /\ [][NextFormat]_vars

(* ------------------------------- claims ------------------------------- *)

Returned == pc = "done" /\ outcome = "returned"
\* ReActAgent.process returned from the agent's final text (agent.invoke returned)
ReturnedFromOutput == path = "react" /\ Returned /\ failure = ""
RequiredKeys == {"original_query", "is_complex", "sub_problems", "complexity_analysis"}

\* C1: whenever process ends, on either path and whatever the model did, it has
\* returned (not raised) and the result has the keys original_query, is_complex,
\* sub_problems and complexity_analysis.
C1_ReturnsCanonicalSchema ==
    pc = "done" => outcome = "returned" /\ RequiredKeys \subseteq DOMAIN result

\* C2: in every returned result with is_complex false, sub_problems is exactly
\* one element: content the query, type the simple tag, no dependencies.
C2_SimpleHasOneSubProblem ==
    (Returned /\ result.is_complex = PyFalse)
        => /\ Len(result.sub_problems.items) = 1
           /\ result.sub_problems.items[1].content = query
           /\ result.sub_problems.items[1].type = TYPE_SIMPLE
           /\ result.sub_problems.items[1].dependencies = <<>>

\* C3: in every returned result with is_complex true, sub_problems is not empty.
C3_ComplexHasSubProblems ==
    (Returned /\ result.is_complex = PyTrue) => result.sub_problems.items # <<>>

\* the extracted object is complex and has no sub_problems key
ComplexWithoutSubProblems ==
    /\ ReturnedFromOutput
    /\ parsed_result # <<>>
    /\ result.is_complex = PyTrue
    /\ ~DictHas(parsed_result[1], "sub_problems")

C5_TransportErrorIsData ==
    (pc = "done" /\ failure # "")
        => /\ outcome = "returned"
           /\ result.original_query = query
           /\ result.is_complex = PyNone
           /\ result.sub_problems = PyList(<<>>)
           /\ "error" \in DOMAIN result
           /\ result.error = failure

\* positions of the marker in the final text
MarkerPositions == {i \in 1..Len(output) : output[i] = final_answer_marker}
\* where the searched text starts in the final text: right after the first
\* marker, or at the start without a marker
SearchFrom ==
    IF MarkerPositions = {} THEN 1
    ELSE 1 + CHOOSE i \in MarkerPositions : \A j \in MarkerPositions : i <= j
Opens == {i \in SearchFrom..Len(output) : output[i] = LBRACE}
Closes == {i \in SearchFrom..Len(output) : output[i] = RBRACE}
FirstOpen == CHOOSE i \in Opens : \A j \in Opens : i <= j
LastClose == CHOOSE i \in Closes : \A j \in Closes : j <= i
\* the candidate: first "{" to last "}" of the searched text, <<>> when none
Candidate ==
    IF Opens # {} /\ Closes # {} /\ FirstOpen < LastClose
    THEN <<SubSeq(output, FirstOpen, LastClose)>>
    ELSE <<>>

\* C7: the span handed to json.loads is the one from the first "{" to the last
\* "}" of the text after the first marker, or of the whole text without a
\* marker; the object extracted is that span's and no other text's; prose
\* followed by an object without a marker yields that object.
C7_ExtractionSpan ==
    ReturnedFromOutput
        => /\ json_str = Candidate
           /\ parsed_result =
                IF Candidate # <<>> /\ Loads(Candidate[1]).ok
                THEN <<Loads(Candidate[1]).dict>>
                ELSE <<>>
           /\ output = <<PROSE, LBRACE, Tok("is_complex", "false"), RBRACE>>
                => parsed_result = << <<Item("is_complex", PyFalse)>> >>

\* C7 witness: the marker occurs twice, an object stands before the first
\* marker and a span is found after it
C7_Witness ==
    /\ ReturnedFromOutput
    /\ Cardinality(MarkerPositions) = 2
    /\ json_str # <<>>

\* no span in the searched text, or a span that is no valid JSON
ExtractionFailed == Candidate = <<>> \/ ~Loads(Candidate[1]).ok

\* C8: when extraction from the final text fails, process returns is_complex
\* null, no sub-problems and the raw final text, and sets no error.
C8_ExtractionFailureResult ==
    (ReturnedFromOutput /\ ExtractionFailed)
        => /\ result.original_query = query
           /\ result.is_complex = PyNone
           /\ result.sub_problems = PyList(<<>>)
           /\ "raw_output" \in DOMAIN result
           /\ result.raw_output = output
           /\ "error" \notin DOMAIN result

\* C8 witness: a span was found after the marker and it is no valid JSON
C8_Witness ==
    /\ ReturnedFromOutput
    /\ MarkerPositions # {}
    /\ Candidate # <<>>
    /\ ~Loads(Candidate[1]).ok

\* C9: in every returned result is_complex is true, false or null.
C9_IsComplexTriState ==
    Returned => result.is_complex \in {PyTrue, PyFalse, PyNone}

\* the classification tool has returned inside the agent loop
ComplexityToolReturned == pc = "observing" /\ tool = "complexity_check"

\* C10: the classification tool returns, for a body that is no JSON, the text of
\* the default verdict (is_complex false, the parse-failed reason, no
\* indicators, the raw body), and for a body that is JSON a text of the same value.
C10_ComplexityToolDegrades ==
    ComplexityToolReturned
        => LET got == Loads(observation)
           IN  /\ got.ok
               /\ IF Loads(content).ok
                  THEN got = Loads(content)
                  ELSE /\ got.isdict
                       /\ got.dict = << Item("is_complex", PyFalse),
                                         Item("reason", PyStr(REASON_TOOL_PARSE_FAILED)),
                                         Item("indicators", PyList(<<>>)),
                                         Item("raw_response", PyText(content)) >>

\* C10 witness: the tool returned on a body of prose around an object
C10_Witness ==
    /\ ComplexityToolReturned
    /\ content = <<PROSE, LBRACE, RBRACE>>
    /\ observation # <<>>

\* the decomposition tool has returned: inside the agent loop, or to the
\* single-shot process, which then ran to its end
DecomposeToolReturnedInLoop == pc = "observing" /\ tool = "problem_decompose"
DecomposeToolReturnedToSimple ==
    /\ path = "simple" /\ pc = "done" /\ failure = ""
    /\ llm_calls = <<"classification", "decomposition">>
\* the query the tool was run with
DecomposedQuery == IF path = "simple" THEN query ELSE tool_query

\* xs is the one sub-problem that repeats the question q
IsWholeQuestion(xs, q) ==
    /\ xs.type = "list"
    /\ Len(xs.items) = 1
    /\ xs.items[1].content = q
    /\ xs.items[1].type = TYPE_ORIGINAL
    /\ xs.items[1].dependencies = <<>>

\* C11: for every body that is no JSON the decomposition tool returns (does not
\* raise) the text of a decomposition with exactly one sub-problem: content the
\* query, type the original-question tag, no dependencies; the single-shot
\* process then returns that sub-problem.
C11_DecomposeToolDegrades ==
    ((DecomposeToolReturnedInLoop \/ DecomposeToolReturnedToSimple)
        /\ ~Loads(content).ok)
        => LET got == Loads(observation)
           IN  /\ got.ok /\ got.isdict
               /\ DictHas(got.dict, "sub_problems")
               /\ IsWholeQuestion(DictGet(got.dict, "sub_problems", PyNone),
                                  DecomposedQuery)
               /\ path = "simple"
                    => /\ outcome = "returned"
                       /\ IsWholeQuestion(result.sub_problems, query)

\* C11 witness: the single-shot process got a decomposition body of prose
\* around an object and returned
C11_Witness ==
    /\ DecomposeToolReturnedToSimple
    /\ content = <<PROSE, LBRACE, RBRACE>>
    /\ outcome = "returned"
    /\ query = "find a hotel and a flight"

\* _format_final_result has returned for the object parsed_result[1]
Formatted == pc = "done" /\ parsed_result # <<>> /\ outcome = "returned"
\* that object's is_complex (null when the key is absent)
GivenIsComplex == DictGet(parsed_result[1], "is_complex", PyNone)
HasIsComplex == DictHas(parsed_result[1], "is_complex")

\* every casing of "true" and of "false", written out
TrueCasings ==
    {"true", "truE", "trUe", "trUE", "tRue", "tRuE", "tRUe", "tRUE",
     "True", "TruE", "TrUe", "TrUE", "TRue", "TRuE", "TRUe", "TRUE"}
FalseCasings == CasedStrings \ TrueCasings

\* C12: a str is_complex that is "true" in any casing becomes the boolean true,
\* one that is "false" in any casing becomes the boolean false, and a boolean
\* is_complex is copied unchanged.
C12_StringCoercion ==
    (Formatted /\ HasIsComplex)
        => /\ (GivenIsComplex.type = "str" /\ GivenIsComplex.val \in TrueCasings)
                => result.is_complex = PyTrue
           /\ (GivenIsComplex.type = "str" /\ GivenIsComplex.val \in FalseCasings)
                => result.is_complex = PyFalse
           /\ GivenIsComplex.type = "bool" => result.is_complex = GivenIsComplex

\* C12 witness: the str "tRuE" was normalized to the boolean true
C12_Witness ==
    /\ Formatted /\ HasIsComplex
    /\ GivenIsComplex = PyStr("tRuE")
    /\ result.is_complex = PyTrue

\* the classification verdict the single-shot process read
Verdict == DictGet(complexity_result, "is_complex", PyFalse)

\* C13: on the single-shot path the model calls of one process call are
\* [classification] or [classification, decomposition], and the decomposition
\* call is made only when the verdict's is_complex is true.
C13_CallSequence ==
    (path = "simple" /\ pc # "idle")
        => /\ llm_calls \in {<<"classification">>,
                              <<"classification", "decomposition">>}
           /\ llm_calls = <<"classification", "decomposition">>
                => Verdict = PyTrue

\* C14: the result's reason and indicators are the top-level "reason" and
\* "indicators" of the parsed final object, and '' and [] when those keys are
\* absent, also when the object holds them under "complexity_analysis".
C14_TopLevelAnalysisOnly ==
    Formatted
        => /\ result.complexity_analysis.reason =
                IF DictHas(parsed_result[1], "reason")
                THEN DictGet(parsed_result[1], "reason", PyNone)
                ELSE PyStr("")
           /\ result.complexity_analysis.indicators =
                IF DictHas(parsed_result[1], "indicators")
                THEN DictGet(parsed_result[1], "indicators", PyNone)
                ELSE PyList(<<>>)

\* C14 witness: reason and indicators stood only under complexity_analysis and
\* the result carries '' and []
C14_Witness ==
    /\ Formatted
    /\ DictGet(parsed_result[1], "complexity_analysis", PyNone) = SuppliedAnalysis
    /\ ~DictHas(parsed_result[1], "reason")
    /\ ~DictHas(parsed_result[1], "indicators")
    /\ result.complexity_analysis = [reason |-> PyStr(""), indicators |-> PyList(<<>>)]

====
